---- MODULE Spec2Model ----
(***************************************************************************)
(* MP3 frame counting: the streaming scanner (StreamingMp3Parser, fed by a *)
(* read stream in chunks), the whole-buffer scanner (Mp3Parser) and the    *)
(* POST /file-upload route that runs the streaming scanner on an upload.   *)
(* Bytes are naturals 0..255, buffers are sequences of bytes (TLA+         *)
(* sequences are 1-based, so buffer[offset] of the code is buf[offset+1]). *)
(***************************************************************************)
EXTENDS Integers, Sequences, FiniteSets, TLC

(***************************************************************************)
(* Program constants.                                                      *)
(***************************************************************************)
FRAME_SYNC_BYTE1 == 255
FRAME_SYNC_BYTE2_MASK == 224
FRAME_SIZE_COEFFICIENT == 144
BITRATE_MULTIPLIER == 1000
MIN_HEADER_SIZE == 4
CHUNK_SIZE == 64 * 1024

BITRATE_TABLE == <<0, 32, 40, 48, 56, 64, 80, 96, 112, 128, 160, 192, 224, 256, 320, 0>>
SAMPLE_RATE_TABLE == <<44100, 48000, 32000, 0>>

MsgPathRequired == "File path is required"
MsgNotExist == "File does not exist"
MsgEmpty == "File is empty"
MsgBufferMissing == "File buffer is missing"
MsgNoFrames == "No valid MP3 frames found"
MsgReadErrorPrefix == "Error reading file: "
MsgNoFile == "No file uploaded"
MsgOnlyMp3 == "Only MP3 files are allowed"
MsgTooLarge == "File is too large"

MAX_FILE_SIZE == 10 * 1024 * 1024
ALLOWED_MIMETYPES == {"audio/mpeg", "audio/mp3"}

(***************************************************************************)
(* Bit arithmetic of the header decoder.  readUInt32BE gives an unsigned   *)
(* 32-bit number and `>>` first converts it to a signed 32-bit one; the    *)
(* two steps together are the signed big-endian value below (the unsigned  *)
(* value itself exceeds TLC's 32-bit integers).  `>>` is the arithmetic   *)
(* shift, i.e. floor division by a power of two.                           *)
(***************************************************************************)
RECURSIVE Pow2(_)
Pow2(n) == IF n = 0 THEN 1 ELSE 2 * Pow2(n - 1)

RECURSIVE BitAnd(_, _)
BitAnd(a, b) ==
  IF a = 0 \/ b = 0 THEN 0
  ELSE (a % 2) * (b % 2) + 2 * BitAnd(a \div 2, b \div 2)

Shr(x, n) == x \div Pow2(n)

ReadInt32BE(buf, off) ==
  LET b0 == buf[off + 1]
      b1 == buf[off + 2]
      b2 == buf[off + 3]
      b3 == buf[off + 4]
  IN  (IF b0 >= 128 THEN b0 - 256 ELSE b0) * 16777216 + b1 * 65536 + b2 * 256 + b3

\* variant of StreamGetFrameSize: kbps scaled by 1024 instead of 1000
StreamGetFrameSize_Kibi(buf, off) ==
  IF off + MIN_HEADER_SIZE > Len(buf) THEN 0
  ELSE LET header == ReadInt32BE(buf, off)
           bitrate == BITRATE_TABLE[BitAnd(Shr(header, 12), 15) + 1]
           sampleRate == SAMPLE_RATE_TABLE[BitAnd(Shr(header, 10), 3) + 1]
           padding == BitAnd(Shr(header, 9), 1)
       IN  IF bitrate = 0 \/ sampleRate = 0 THEN 0
           ELSE ((FRAME_SIZE_COEFFICIENT * bitrate * 1024) \div sampleRate) + padding

\* variant of StreamGetFrameSize: the padding bit is read from bit 8, not bit 9
StreamGetFrameSize_PadBit8(buf, off) ==
  IF off + MIN_HEADER_SIZE > Len(buf) THEN 0
  ELSE LET header == ReadInt32BE(buf, off)
           bitrate == BITRATE_TABLE[BitAnd(Shr(header, 12), 15) + 1]
           sampleRate == SAMPLE_RATE_TABLE[BitAnd(Shr(header, 10), 3) + 1]
           padding == BitAnd(Shr(header, 8), 1)
       IN  IF bitrate = 0 \/ sampleRate = 0 THEN 0
           ELSE ((FRAME_SIZE_COEFFICIENT * bitrate * BITRATE_MULTIPLIER) \div sampleRate) + padding

(***************************************************************************)
(* StreamingMp3Parser.getFrameSize(buffer, offset).                        *)
(***************************************************************************)
StreamGetFrameSize(buf, off) ==
  IF off + MIN_HEADER_SIZE > Len(buf) THEN 0
  ELSE LET header == ReadInt32BE(buf, off)
           bitrateIndex == BitAnd(Shr(header, 12), 15)
           bitrate == BITRATE_TABLE[bitrateIndex + 1]
           sampleRateIndex == BitAnd(Shr(header, 10), 3)
           sampleRate == SAMPLE_RATE_TABLE[sampleRateIndex + 1]
           padding == BitAnd(Shr(header, 9), 1)
       IN  IF bitrate = 0 \/ sampleRate = 0 THEN 0
           ELSE ((FRAME_SIZE_COEFFICIENT * bitrate * BITRATE_MULTIPLIER) \div sampleRate) + padding

\* variant of MemGetFrameSize: the padding bit is read from bit 8, not bit 9
MemGetFrameSize_PadBit8(buf, off) ==
  IF off + MIN_HEADER_SIZE > Len(buf) THEN 0
  ELSE LET header == ReadInt32BE(buf, off)
           bitrate == BITRATE_TABLE[BitAnd(Shr(header, 12), 15) + 1]
           sampleRate == SAMPLE_RATE_TABLE[BitAnd(Shr(header, 10), 3) + 1]
           padding == BitAnd(Shr(header, 8), 1)
       IN  IF bitrate = 0 \/ sampleRate = 0 THEN 0
           ELSE ((FRAME_SIZE_COEFFICIENT * bitrate * BITRATE_MULTIPLIER) \div sampleRate) + padding

(***************************************************************************)
(* Mp3Parser.getFrameSize(offset) over this.buffer.                        *)
(***************************************************************************)
MemGetFrameSize(buf, off) ==
  IF off + MIN_HEADER_SIZE > Len(buf) THEN 0
  ELSE LET header == ReadInt32BE(buf, off)
           bitrateIndex == BitAnd(Shr(header, 12), 15)
           bitrate == BITRATE_TABLE[bitrateIndex + 1]
           sampleRateIndex == BitAnd(Shr(header, 10), 3)
           sampleRate == SAMPLE_RATE_TABLE[sampleRateIndex + 1]
           padding == BitAnd(Shr(header, 9), 1)
       IN  IF bitrate = 0 \/ sampleRate = 0 THEN 0
           ELSE ((FRAME_SIZE_COEFFICIENT * bitrate * BITRATE_MULTIPLIER) \div sampleRate) + padding

(***************************************************************************)
(* The sync test shared by both scan loops: byte1 === 0xff and             *)
(* (byte2 & 0xe0) === 0xe0.                                                *)
(***************************************************************************)
SyncMatch(byte1, byte2) ==
  /\ byte1 = FRAME_SYNC_BYTE1
  /\ BitAnd(byte2, FRAME_SYNC_BYTE2_MASK) = FRAME_SYNC_BYTE2_MASK

(***************************************************************************)
(* A run of loop iterations that take the final else branch (the sync test *)
(* fails, offset++) is taken in one step: from off the offset climbs to    *)
(* the first position where the sync test succeeds, or to the first value  *)
(* at which the loop condition offset < buffer.length - MIN_HEADER_SIZE    *)
(* fails.                                                                  *)
(***************************************************************************)
Least(S) == CHOOSE m \in S : \A q \in S : m <= q

SkipNoSync(buf, off) ==
  LET lim == Len(buf) - MIN_HEADER_SIZE
      hits == {p \in off..(lim - 1) : SyncMatch(buf[p + 1], buf[p + 2])}
  IN  IF off >= lim THEN off
      ELSE IF hits = {} THEN lim
      ELSE Least(hits)

\* variant of StreamScanLoop: the fit test is strict (< instead of <=)
RECURSIVE StreamScanLoop_StrictFit(_, _, _, _)
StreamScanLoop_StrictFit(buf, off, fc, acc) ==
  IF ~(off < Len(buf) - MIN_HEADER_SIZE)
  THEN [offset |-> off, frameCount |-> fc, accepted |-> acc, suspended |-> FALSE]
  ELSE IF SyncMatch(buf[off + 1], buf[off + 2])
       THEN LET frameSize == StreamGetFrameSize(buf, off)
            IN  IF frameSize > 0
                THEN IF off + frameSize < Len(buf)
                     THEN StreamScanLoop_StrictFit(buf, off + frameSize, fc + 1,
                                                   Append(acc, off))
                     ELSE [offset |-> off, frameCount |-> fc, accepted |-> acc,
                           suspended |-> TRUE]
                ELSE StreamScanLoop_StrictFit(buf, off + 1, fc, acc)
       ELSE StreamScanLoop_StrictFit(buf, SkipNoSync(buf, off + 1), fc, acc)

\* variant of StreamScanLoop: a frame is counted without testing that it fits
RECURSIVE StreamScanLoop_CountPartial(_, _, _, _)
StreamScanLoop_CountPartial(buf, off, fc, acc) ==
  IF ~(off < Len(buf) - MIN_HEADER_SIZE)
  THEN [offset |-> off, frameCount |-> fc, accepted |-> acc, suspended |-> FALSE]
  ELSE IF SyncMatch(buf[off + 1], buf[off + 2])
       THEN LET frameSize == StreamGetFrameSize(buf, off)
            IN  IF frameSize > 0
                THEN StreamScanLoop_CountPartial(buf, off + frameSize, fc + 1,
                                                 Append(acc, off))
                ELSE StreamScanLoop_CountPartial(buf, off + 1, fc, acc)
       ELSE StreamScanLoop_CountPartial(buf, SkipNoSync(buf, off + 1), fc, acc)

(***************************************************************************)
(* The while loop of the 'data' handler.  It runs from the current offset  *)
(* and frameCount and returns where it halted; `accepted` collects the     *)
(* offsets (relative to buf) at which it counted a frame and `suspended`   *)
(* tells that it left through the break.                                   *)
(***************************************************************************)
RECURSIVE StreamScanLoop(_, _, _, _)
StreamScanLoop(buf, off, fc, acc) ==
  IF ~(off < Len(buf) - MIN_HEADER_SIZE)
  THEN [offset |-> off, frameCount |-> fc, accepted |-> acc, suspended |-> FALSE]
  ELSE IF SyncMatch(buf[off + 1], buf[off + 2])
       THEN LET frameSize == StreamGetFrameSize(buf, off)
            IN  IF frameSize > 0
                THEN IF off + frameSize <= Len(buf)
                     THEN StreamScanLoop(buf, off + frameSize, fc + 1, Append(acc, off))
                     ELSE [offset |-> off, frameCount |-> fc, accepted |-> acc,
                           suspended |-> TRUE]
                ELSE StreamScanLoop(buf, off + 1, fc, acc)
       ELSE StreamScanLoop(buf, SkipNoSync(buf, off + 1), fc, acc)

(***************************************************************************)
(* The while loop of Mp3Parser.getFrameCount.                              *)
(***************************************************************************)
RECURSIVE MemScanLoop(_, _, _, _)
MemScanLoop(buf, off, fc, acc) ==
  IF ~(off < Len(buf) - MIN_HEADER_SIZE)
  THEN [offset |-> off, frameCount |-> fc, accepted |-> acc]
  ELSE IF SyncMatch(buf[off + 1], buf[off + 2])
       THEN LET frameSize == MemGetFrameSize(buf, off)
            IN  IF frameSize > 0
                THEN MemScanLoop(buf, off + frameSize, fc + 1, Append(acc, off))
                ELSE MemScanLoop(buf, off + 1, fc, acc)
       ELSE MemScanLoop(buf, SkipNoSync(buf, off + 1), fc, acc)

(***************************************************************************)
(* Inputs.  A frame is built the way the test helpers build one            *)
(* (createValidMp3Frame): byte0 0xFF, a second byte with the top three     *)
(* bits set, bitrateIndex << 4 | sampleRateIndex << 2 | padding << 1, and  *)
(* a zero byte, followed by a zero-filled body up to the declared length.  *)
(***************************************************************************)
MaxGarbage == 5
MaxJunk == 1
MaxFrames == 1
TruncLen == 6
MaxChunk == 3

Zeros(n) == [i \in 1..n |-> 0]

MkHeader(h) == <<255, h[1], h[2] * 16 + h[3] * 4 + h[4] * 2, 0>>

DeclaredLen(h) ==
  ((144 * BITRATE_TABLE[h[2] + 1] * 1000) \div SAMPLE_RATE_TABLE[h[3] + 1]) + h[4]

MkFrame(h) == MkHeader(h) \o Zeros(DeclaredLen(h) - 4)

MkTruncated(h, n) == SubSeq(MkFrame(h), 1, n)

RECURSIVE Concat(_)
Concat(ss) == IF ss = <<>> THEN <<>> ELSE Head(ss) \o Concat(Tail(ss))

SeqsUpTo(S, n) == UNION {[1..m -> S] : m \in 0..n}

\* 32 kbps at 48000 Hz: second header byte 0xFB (MPEG-1 Layer III) without
\* padding, second header byte 0xE0 (sync bits only) with padding
HeaderChoices == {<<251, 1, 1, 0>>, <<224, 1, 1, 1>>}
\* 0xFF also has the three sync bits of a second header byte set; 0x14 is
\* bitrate index 1 with sample-rate index 1, 0x00 is bitrate index 0
GarbageBytes == {0, 255, 20}
JunkBytes == {0, 255}

GarbageFiles == SeqsUpTo(GarbageBytes, MaxGarbage)

FramedFiles ==
  { junk \o Concat([i \in 1..Len(hs) |-> MkFrame(hs[i])]) \o tail :
      junk \in SeqsUpTo(JunkBytes, MaxJunk),
      hs \in SeqsUpTo(HeaderChoices, MaxFrames),
      tail \in {<<>>} \cup {MkTruncated(h, TruncLen) : h \in HeaderChoices} }

Files == GarbageFiles \cup FramedFiles

Causes == {"ENOENT", "EIO"}

(***************************************************************************)
(* State.                                                                  *)
(***************************************************************************)
VARIABLES
  path,         \* the filePath handed to the StreamingMp3Parser constructor
  exists,       \* whether the upload is stored (a file at the path, file.buffer set)
  file,         \* the bytes of that file (also file.buffer of Mp3Parser)
  parser,       \* StreamingMp3Parser: "none", "ready", "threw"
  parserError,  \* the message the constructor threw
  stream,       \* the read stream: "none", "flowing", "ended", "errored"
  delivered,    \* bytes the stream has emitted in 'data' events
  buffer,       \* let buffer   (getFrameCount closure)
  offset,       \* let offset
  frameCount,   \* let frameCount
  promise,      \* the promise returned by getFrameCount
  settleCalls,  \* calls of resolve/reject so far
  dropped,      \* bytes removed from the front of buffer so far
  accepted,     \* absolute offsets at which the streaming scan counted a frame
  carried,      \* a 'data' event has appended to a non-empty buffer
  memParser,    \* Mp3Parser: "none", "ready", "threw"
  memError,     \* the message its constructor threw
  memResult,    \* outcome of Mp3Parser.getFrameCount
  memAccepted,  \* offsets at which Mp3Parser counted a frame
  memOffset,    \* let offset    (Mp3Parser.getFrameCount)
  memCount,     \* let frameCount (Mp3Parser.getFrameCount)
  scanning,     \* the 'data' handler is inside its while loop
  decoded,      \* what the two getFrameSize methods returned for a header
  upload,       \* the file part of the POST /file-upload request
  route,        \* position of the request in the route
  responses,    \* responses sent for the request, in order
  unlinks,      \* calls of fs.unlinkSync so far
  other,        \* closure state of a second getFrameCount call on the parser
  examined,     \* what the loop body found for a header and for a twin of it
  iters         \* iterations of the while loop in the running 'data' handler

streamVars == <<stream, delivered, buffer, offset, frameCount, promise, settleCalls,
                dropped, accepted, carried>>
memVars == <<memParser, memError, memResult, memAccepted>>
inputVars == <<path, exists, file>>
iterVars == <<memOffset, memCount, scanning>>
httpVars == <<upload, route, responses, unlinks>>
sideVars == <<other, examined>>
vars == <<path, exists, file, parser, parserError, stream, delivered, buffer, offset,
          frameCount, promise, settleCalls, dropped, accepted, carried, memParser,
          memError, memResult, memAccepted, memOffset, memCount, scanning, decoded,
          upload, route, responses, unlinks, other, examined, iters>>

NoOutcome == [state |-> "none", count |-> 0, reason |-> <<>>]
Pending == [state |-> "pending", count |-> 0, reason |-> <<>>]
Resolved(n) == [state |-> "resolved", count |-> n, reason |-> <<>>]
Rejected(r) == [state |-> "rejected", count |-> 0, reason |-> r]
Returned(n) == [state |-> "returned", count |-> n, reason |-> <<>>]
Threw(r) == [state |-> "threw", count |-> 0, reason |-> r]

\* getFrameSize not called yet / called at offset `off` with both results
NotDecoded == [state |-> "none", offset |-> 0, stream |-> 0, mem |-> 0]
Decoded(off, a, b) == [state |-> "done", offset |-> off, stream |-> a, mem |-> b]

\* the closure of a getFrameCount call: its stream, let frameCount, let
\* buffer, let offset and the promise it returned (dropped and accepted
\* as for the first call); NoScan before the call
NoScan ==
  [stream |-> "none", delivered |-> 0, buffer |-> <<>>, offset |-> 0, frameCount |-> 0,
   promise |-> NoOutcome, dropped |-> 0, accepted |-> <<>>]

\* the loop body's sync test and getFrameSize call on a header and on a twin
\* of it; size is 0 where the sync test failed and getFrameSize was not called
NotExamined ==
  [state |-> "none", twin |-> <<>>, sync |-> FALSE, size |-> 0, twinSync |-> FALSE,
   twinSize |-> 0]
Examined(t, s, n, ts, tn) ==
  [state |-> "done", twin |-> t, sync |-> s, size |-> n, twinSync |-> ts, twinSize |-> tn]

InitRest ==
  /\ parser = "none" /\ parserError = ""
  /\ stream = "none" /\ delivered = 0
  /\ buffer = <<>> /\ offset = 0 /\ frameCount = 0
  /\ promise = NoOutcome /\ settleCalls = 0
  /\ dropped = 0 /\ accepted = <<>> /\ carried = FALSE
  /\ memParser = "none" /\ memError = ""
  /\ memResult = NoOutcome /\ memAccepted = <<>>
  /\ memOffset = 0 /\ memCount = 0 /\ scanning = FALSE
  /\ decoded = NotDecoded
  /\ route = "none" /\ responses = <<>> /\ unlinks = 0
  /\ other = NoScan /\ examined = NotExamined /\ iters = 0

\* upload = "none": the parsers are used directly, outside a request
InitInput(F) ==
  /\ upload = "none"
  /\ \/ path = "" /\ exists = FALSE /\ file = <<>>
     \/ path = "uploads/tmp" /\ exists = FALSE /\ file = <<>>
     \/ path = "uploads/tmp" /\ exists = TRUE /\ file \in F

Init == InitInput(Files) /\ InitRest

(***************************************************************************)
(* StreamingMp3Parser.                                                     *)
(***************************************************************************)
\* variant of Construct: the size test is missing
Construct_NoSizeCheck ==
  /\ parser = "none"
  /\ IF path = "" THEN parser' = "threw" /\ parserError' = MsgPathRequired
     ELSE IF ~exists THEN parser' = "threw" /\ parserError' = MsgNotExist
     ELSE parser' = "ready" /\ parserError' = ""
  /\ UNCHANGED <<inputVars, httpVars, iterVars, decoded, sideVars, iters, streamVars, memVars>>

Construct ==
  /\ parser = "none"
  /\ IF path = "" THEN parser' = "threw" /\ parserError' = MsgPathRequired
     ELSE IF ~exists THEN parser' = "threw" /\ parserError' = MsgNotExist
     ELSE IF Len(file) = 0 THEN parser' = "threw" /\ parserError' = MsgEmpty
     ELSE parser' = "ready" /\ parserError' = ""
  /\ UNCHANGED <<inputVars, httpVars, iterVars, decoded, sideVars, iters, streamVars, memVars>>

GetFrameCount ==
  /\ parser = "ready"
  /\ promise.state = "none"
  /\ promise' = Pending
  /\ stream' = "flowing"
  /\ frameCount' = 0
  /\ buffer' = <<>>
  /\ offset' = 0
  /\ UNCHANGED <<inputVars, httpVars, iterVars, decoded, sideVars, iters, parser, parserError,
                 delivered, settleCalls, dropped, accepted, carried, memVars>>

\* resolve/reject of a promise: only the first call settles it
Settle(outcome) ==
  /\ promise' = IF promise.state = "pending" THEN outcome ELSE promise
  /\ settleCalls' = settleCalls + 1

\* variant of OnData: the chunk replaces the buffer instead of extending it
OnData_NoCarry(chunk) ==
  \E buf \in {chunk} :
  \E r \in {StreamScanLoop(buf, offset, frameCount, <<>>)} :
      /\ frameCount' = r.frameCount
      /\ buffer' = IF r.offset > 0 THEN SubSeq(buf, r.offset + 1, Len(buf)) ELSE buf
      /\ offset' = IF r.offset > 0 THEN 0 ELSE r.offset
      /\ dropped' = (delivered + r.offset)
      /\ accepted' = accepted \o
                       [i \in 1..Len(r.accepted) |-> delivered + r.accepted[i]]
      /\ carried' = (carried \/ Len(buffer) > 0)

\* variant of OnData: offset is reset but the consumed bytes stay in the buffer
OnData_KeepConsumed(chunk) ==
  \E buf \in {buffer \o chunk} :
  \E r \in {StreamScanLoop(buf, offset, frameCount, <<>>)} :
      /\ frameCount' = r.frameCount
      /\ buffer' = buf
      /\ offset' = 0
      /\ dropped' = IF r.offset > 0 THEN dropped + r.offset ELSE dropped
      /\ accepted' = accepted \o [i \in 1..Len(r.accepted) |-> dropped + r.accepted[i]]
      /\ carried' = (carried \/ Len(buffer) > 0)

\* variant of OnData: the buffer is never trimmed
OnData_NoTrim(chunk) ==
  \E buf \in {buffer \o chunk} :
  \E r \in {StreamScanLoop(buf, offset, frameCount, <<>>)} :
      /\ frameCount' = r.frameCount
      /\ buffer' = buf
      /\ offset' = r.offset
      /\ dropped' = dropped
      /\ accepted' = accepted \o [i \in 1..Len(r.accepted) |-> dropped + r.accepted[i]]
      /\ carried' = (carried \/ Len(buffer) > 0)

\* buf and r are bound once: the buffer after Buffer.concat and the state in
\* which the while loop halted
OnData(chunk) ==
  \E buf \in {buffer \o chunk} :
  \E r \in {StreamScanLoop(buf, offset, frameCount, <<>>)} :
      /\ frameCount' = r.frameCount
      /\ buffer' = IF r.offset > 0 THEN SubSeq(buf, r.offset + 1, Len(buf)) ELSE buf
      /\ offset' = IF r.offset > 0 THEN 0 ELSE r.offset
      /\ dropped' = IF r.offset > 0 THEN dropped + r.offset ELSE dropped
      /\ accepted' = accepted \o [i \in 1..Len(r.accepted) |-> dropped + r.accepted[i]]
      /\ carried' = (carried \/ Len(buffer) > 0)

\* variant of Deliver: a chunk that leaves frameCount at 0 rejects at once
Deliver_FailFast(k) ==
  /\ stream = "flowing"
  /\ k >= 1
  /\ delivered + k <= Len(file)
  /\ OnData(SubSeq(file, delivered + 1, delivered + k))
  /\ delivered' = delivered + k
  /\ IF frameCount' = 0 THEN Settle(Rejected(<<MsgNoFrames>>))
     ELSE UNCHANGED <<promise, settleCalls>>
  /\ UNCHANGED <<inputVars, httpVars, iterVars, decoded, sideVars, iters, parser,
                 parserError, stream, memVars>>

Deliver(k) ==
  /\ stream = "flowing"
  /\ k >= 1
  /\ delivered + k <= Len(file)
  /\ OnData(SubSeq(file, delivered + 1, delivered + k))
  /\ delivered' = delivered + k
  /\ UNCHANGED <<inputVars, httpVars, iterVars, decoded, sideVars, iters, parser,
                 parserError, stream, promise, settleCalls, memVars>>

ChunkLens(rem) == {k \in 1..rem : k <= MaxChunk \/ rem - k <= MaxChunk}

Data == \E k \in ChunkLens(Len(file) - delivered) : Deliver(k)

\* variant of End: the frameCount === 0 test is missing
End_NoCheck ==
  /\ stream = "flowing"
  /\ delivered = Len(file)
  /\ stream' = "ended"
  /\ Settle(Resolved(frameCount))
  /\ UNCHANGED <<inputVars, httpVars, iterVars, decoded, sideVars, iters, parser, parserError,
                 delivered, buffer, offset, frameCount, dropped, accepted, carried,
                 memVars>>

End ==
  /\ stream = "flowing"
  /\ delivered = Len(file)
  /\ stream' = "ended"
  /\ IF frameCount = 0 THEN Settle(Rejected(<<MsgNoFrames>>))
     ELSE Settle(Resolved(frameCount))
  /\ UNCHANGED <<inputVars, httpVars, iterVars, decoded, sideVars, iters, parser, parserError,
                 delivered, buffer, offset, frameCount, dropped, accepted, carried,
                 memVars>>

\* variant of Error: a read failure is handled like end-of-data
Error_AsEnd ==
  /\ stream = "flowing"
  /\ IF frameCount = 0 THEN Settle(Rejected(<<MsgNoFrames>>))
     ELSE Settle(Resolved(frameCount))
  /\ stream' = "errored"
  /\ UNCHANGED <<inputVars, httpVars, iterVars, decoded, sideVars, iters, parser, parserError,
                 delivered, buffer, offset, frameCount, dropped, accepted, carried,
                 memVars>>

Error ==
  /\ stream = "flowing"
  /\ \E cause \in Causes :
       Settle(Rejected(<<MsgReadErrorPrefix, cause>>))
  /\ stream' = "errored"
  /\ UNCHANGED <<inputVars, httpVars, iterVars, decoded, sideVars, iters, parser, parserError,
                 delivered, buffer, offset, frameCount, dropped, accepted, carried,
                 memVars>>

(***************************************************************************)
(* Mp3Parser over the same bytes held in memory.                           *)
(***************************************************************************)
MemConstruct ==
  /\ memParser = "none"
  /\ IF ~exists THEN memParser' = "threw" /\ memError' = MsgBufferMissing
     ELSE IF Len(file) = 0 THEN memParser' = "threw" /\ memError' = MsgEmpty
     ELSE memParser' = "ready" /\ memError' = ""
  /\ UNCHANGED <<inputVars, httpVars, iterVars, decoded, sideVars, iters, parser, parserError,
                 streamVars, memResult, memAccepted>>

MemGetFrameCount ==
  /\ memParser = "ready"
  /\ memResult.state = "none"
  /\ \E r \in {MemScanLoop(file, 0, 0, <<>>)} :
         /\ memResult' = IF r.frameCount = 0 THEN Threw(<<MsgNoFrames>>)
                         ELSE Returned(r.frameCount)
         /\ memAccepted' = r.accepted
         /\ memOffset' = r.offset
         /\ memCount' = r.frameCount
  /\ UNCHANGED <<inputVars, httpVars, scanning, decoded, sideVars, iters, parser, parserError,
                 streamVars, memParser, memError>>

Next ==
  \/ Construct
  \/ GetFrameCount
  \/ Data
  \/ End
  \/ Error
  \/ MemConstruct
  \/ MemGetFrameCount

Spec == Init /\ [][Next]_vars

(***************************************************************************)
(* One complete frame of every supported bitrate / sample rate / padding   *)
(* combination, delivered as exactly two chunks split at any point.        *)
(***************************************************************************)
SupportedHeaders ==
  {<<251, bi, si, pad>> : bi \in 1..14, si \in 0..2, pad \in 0..1}

SplitFiles == {MkFrame(h) : h \in SupportedHeaders}

InitSplit == InitInput(SplitFiles) /\ InitRest

DataSplit ==
  \E k \in 1..(Len(file) - delivered) :
     /\ IF delivered = 0 THEN k < Len(file) ELSE k = Len(file) - delivered
     /\ Deliver(k)

NextSplit ==
  \/ Construct
  \/ GetFrameCount
  \/ DataSplit
  \/ End

SpecSplit == InitSplit /\ [][NextSplit]_vars

(***************************************************************************)
(* Runs of identical complete frames, back to back, read with the stream's *)
(* own chunk size (highWaterMark) or a smaller one.                        *)
(***************************************************************************)
MaxRun == 2
SmallChunk == 1000

Repeat(f, m) == Concat([i \in 1..m |-> f])

RunFiles ==
  {Repeat(MkFrame(h), m) : h \in SupportedHeaders, m \in 1..MaxRun}
    \cup {Repeat(MkFrame(<<251, 9, 0, 0>>), 10)}

InitRun == InitInput(RunFiles) /\ InitRest

DataRun ==
  \E size \in {CHUNK_SIZE, SmallChunk} :
     LET rem == Len(file) - delivered
     IN  Deliver(IF size < rem THEN size ELSE rem)

NextRun ==
  \/ Construct
  \/ GetFrameCount
  \/ DataRun
  \/ End
  \/ MemConstruct
  \/ MemGetFrameCount

SpecRun == InitRun /\ [][NextRun]_vars

(***************************************************************************)
(* The two scan loops one iteration at a time.  A 'data' event appends its *)
(* chunk and enters the while loop (DataBegin); Iterate is one iteration   *)
(* that stays in the loop; LoopExit is the exit, through the loop          *)
(* condition or through the break, followed by the trimming of the         *)
(* buffer.  'end' is handled between 'data' handlers.  MemIterate and      *)
(* MemFinish are the same for Mp3Parser.getFrameCount.                     *)
(***************************************************************************)
MaxIterChunk == 5

IterChunkLens(rem) == {k \in 1..rem : k = 1 \/ k = MaxIterChunk \/ k = rem}

LoopCond == offset < Len(buffer) - MIN_HEADER_SIZE

SyncHere == SyncMatch(buffer[offset + 1], buffer[offset + 2])

\* the iteration at offset would leave the loop through the break
Breaks ==
  /\ LoopCond
  /\ SyncHere
  /\ StreamGetFrameSize(buffer, offset) > 0
  /\ offset + StreamGetFrameSize(buffer, offset) > Len(buffer)

DataBegin(k) ==
  /\ stream = "flowing"
  /\ ~scanning
  /\ k >= 1
  /\ delivered + k <= Len(file)
  /\ buffer' = buffer \o SubSeq(file, delivered + 1, delivered + k)
  /\ delivered' = delivered + k
  /\ carried' = (carried \/ Len(buffer) > 0)
  /\ scanning' = TRUE
  /\ UNCHANGED <<inputVars, httpVars, decoded, sideVars, iters, parser, parserError,
                 stream, offset, frameCount, promise, settleCalls, dropped, accepted,
                 memVars, memOffset, memCount>>

DataIter == \E k \in IterChunkLens(Len(file) - delivered) : DataBegin(k)

\* variant of Iterate: a rejected header is skipped as a whole (offset += 4)
Iterate_SkipHeader ==
  /\ scanning
  /\ LoopCond
  /\ ~Breaks
  /\ IF SyncHere
     THEN \E frameSize \in {StreamGetFrameSize(buffer, offset)} :
            IF frameSize > 0
            THEN /\ frameCount' = frameCount + 1
                 /\ offset' = offset + frameSize
                 /\ accepted' = Append(accepted, dropped + offset)
            ELSE /\ offset' = offset + MIN_HEADER_SIZE
                 /\ UNCHANGED <<frameCount, accepted>>
     ELSE /\ offset' = offset + 1
          /\ UNCHANGED <<frameCount, accepted>>
  /\ iters' = iters + 1
  /\ UNCHANGED <<inputVars, httpVars, decoded, sideVars, parser, parserError, stream,
                 delivered, buffer, promise, settleCalls, dropped, carried, scanning,
                 memVars, memOffset, memCount>>

\* variant of Iterate: a decoded length of 0 is accepted as a frame
\* (frameSize >= 0 for frameSize > 0)
Iterate_AcceptZero ==
  /\ scanning
  /\ LoopCond
  /\ ~Breaks
  /\ IF SyncHere
     THEN \E frameSize \in {StreamGetFrameSize(buffer, offset)} :
            IF frameSize >= 0
            THEN /\ frameCount' = frameCount + 1
                 /\ offset' = offset + frameSize
                 /\ accepted' = Append(accepted, dropped + offset)
            ELSE /\ offset' = offset + 1
                 /\ UNCHANGED <<frameCount, accepted>>
     ELSE /\ offset' = offset + 1
          /\ UNCHANGED <<frameCount, accepted>>
  /\ iters' = iters + 1
  /\ UNCHANGED <<inputVars, httpVars, decoded, sideVars, parser, parserError, stream,
                 delivered, buffer, promise, settleCalls, dropped, carried, scanning,
                 memVars, memOffset, memCount>>

Iterate ==
  /\ scanning
  /\ LoopCond
  /\ ~Breaks
  /\ IF SyncHere
     THEN \E frameSize \in {StreamGetFrameSize(buffer, offset)} :
            IF frameSize > 0
            THEN /\ frameCount' = frameCount + 1
                 /\ offset' = offset + frameSize
                 /\ accepted' = Append(accepted, dropped + offset)
            ELSE /\ offset' = offset + 1
                 /\ UNCHANGED <<frameCount, accepted>>
     ELSE /\ offset' = offset + 1
          /\ UNCHANGED <<frameCount, accepted>>
  /\ iters' = iters + 1
  /\ UNCHANGED <<inputVars, httpVars, decoded, sideVars, parser, parserError, stream,
                 delivered, buffer, promise, settleCalls, dropped, carried, scanning,
                 memVars, memOffset, memCount>>

\* variant of LoopExit: after the break the trimming starts one byte past the
\* offset
LoopExit_SkipPending ==
  /\ scanning
  /\ ~LoopCond \/ Breaks
  /\ scanning' = FALSE
  /\ IF Breaks
     THEN /\ buffer' = SubSeq(buffer, offset + 2, Len(buffer))
          /\ offset' = 0
          /\ dropped' = dropped + offset + 1
     ELSE IF offset > 0
     THEN /\ buffer' = SubSeq(buffer, offset + 1, Len(buffer))
          /\ offset' = 0
          /\ dropped' = dropped + offset
     ELSE UNCHANGED <<buffer, offset, dropped>>
  /\ iters' = 0
  /\ UNCHANGED <<inputVars, httpVars, decoded, sideVars, parser, parserError, stream,
                 delivered, frameCount, promise, settleCalls, accepted, carried,
                 memVars, memOffset, memCount>>

LoopExit ==
  /\ scanning
  /\ ~LoopCond \/ Breaks
  /\ scanning' = FALSE
  /\ IF offset > 0
     THEN /\ buffer' = SubSeq(buffer, offset + 1, Len(buffer))
          /\ offset' = 0
          /\ dropped' = dropped + offset
     ELSE UNCHANGED <<buffer, offset, dropped>>
  /\ iters' = 0
  /\ UNCHANGED <<inputVars, httpVars, decoded, sideVars, parser, parserError, stream,
                 delivered, frameCount, promise, settleCalls, accepted, carried,
                 memVars, memOffset, memCount>>

EndIter == ~scanning /\ End

MemLoopCond == memOffset < Len(file) - MIN_HEADER_SIZE

\* variant of MemIterate: a rejected header is skipped as a whole (offset += 4)
MemIterate_SkipHeader ==
  /\ memParser = "ready"
  /\ memResult.state = "none"
  /\ MemLoopCond
  /\ IF SyncMatch(file[memOffset + 1], file[memOffset + 2])
     THEN \E frameSize \in {MemGetFrameSize(file, memOffset)} :
            IF frameSize > 0
            THEN /\ memCount' = memCount + 1
                 /\ memOffset' = memOffset + frameSize
                 /\ memAccepted' = Append(memAccepted, memOffset)
            ELSE /\ memOffset' = memOffset + MIN_HEADER_SIZE
                 /\ UNCHANGED <<memCount, memAccepted>>
     ELSE /\ memOffset' = memOffset + 1
          /\ UNCHANGED <<memCount, memAccepted>>
  /\ UNCHANGED <<inputVars, httpVars, decoded, sideVars, iters, parser, parserError,
                 streamVars, scanning, memParser, memError, memResult>>

MemIterate ==
  /\ memParser = "ready"
  /\ memResult.state = "none"
  /\ MemLoopCond
  /\ IF SyncMatch(file[memOffset + 1], file[memOffset + 2])
     THEN \E frameSize \in {MemGetFrameSize(file, memOffset)} :
            IF frameSize > 0
            THEN /\ memCount' = memCount + 1
                 /\ memOffset' = memOffset + frameSize
                 /\ memAccepted' = Append(memAccepted, memOffset)
            ELSE /\ memOffset' = memOffset + 1
                 /\ UNCHANGED <<memCount, memAccepted>>
     ELSE /\ memOffset' = memOffset + 1
          /\ UNCHANGED <<memCount, memAccepted>>
  /\ UNCHANGED <<inputVars, httpVars, decoded, sideVars, iters, parser, parserError,
                 streamVars, scanning, memParser, memError, memResult>>

MemFinish ==
  /\ memParser = "ready"
  /\ memResult.state = "none"
  /\ ~MemLoopCond
  /\ memResult' = IF memCount = 0 THEN Threw(<<MsgNoFrames>>) ELSE Returned(memCount)
  /\ UNCHANGED <<inputVars, httpVars, iterVars, decoded, sideVars, iters, parser,
                 parserError, streamVars, memParser, memError, memAccepted>>

InitIter == InitInput(Files) /\ InitRest

NextIter ==
  \/ Construct
  \/ GetFrameCount
  \/ DataIter
  \/ Iterate
  \/ LoopExit
  \/ EndIter
  \/ MemConstruct
  \/ MemIterate
  \/ MemFinish

SpecIter == InitIter /\ [][NextIter]_vars

(***************************************************************************)
(* The same iterations with the 'error' event, over short inputs, under    *)
(* the scheduling of the event loop: a handler that has started runs its   *)
(* loop to the exit, and a stream that is flowing delivers its next event  *)
(* ('data' while bytes remain, then 'end', or 'error' at any point).       *)
(***************************************************************************)
MaxProgressGarbage == 5

ProgressFiles ==
  SeqsUpTo(JunkBytes, MaxProgressGarbage) \cup
  { junk \o MkFrame(h) \o tail :
      junk \in {<<>>, <<255>>},
      h \in HeaderChoices,
      tail \in {<<>>, MkTruncated(<<251, 1, 1, 0>>, 6)} }

InitProgress == InitInput(ProgressFiles) /\ InitRest

ErrorIter == ~scanning /\ Error

NextProgress ==
  \/ Construct
  \/ GetFrameCount
  \/ DataIter
  \/ Iterate
  \/ LoopExit
  \/ EndIter
  \/ ErrorIter
  \/ MemConstruct
  \/ MemIterate
  \/ MemFinish

SpecProgress == InitProgress /\ [][NextProgress]_vars

FairSpecProgress == SpecProgress /\ WF_vars(NextProgress)

(***************************************************************************)
(* The header decoder on its own: both getFrameSize methods applied to the *)
(* four bytes at an offset of a short buffer.  Only the third header byte  *)
(* carries the bits the decoder reads; the first byte decides the sign of  *)
(* the 32-bit value that `>>` shifts.                                      *)
(***************************************************************************)
HeaderByte0 == {0, 127, 128, 255}
HeaderByte1 == {0, 224, 251, 255}
HeaderByte2 == 0..255
HeaderByte3 == {0, 255}

HeaderBuffers ==
  {lead \o <<b0, b1, b2, b3>> : lead \in {<<>>, <<255>>}, b0 \in HeaderByte0,
                                b1 \in HeaderByte1, b2 \in HeaderByte2, b3 \in HeaderByte3}

InitDecode == InitInput(HeaderBuffers) /\ exists /\ InitRest

\* getFrameSize at the last offset that leaves four bytes, in both classes
Decode ==
  /\ decoded.state = "none"
  /\ \E off \in {Len(file) - MIN_HEADER_SIZE} :
        decoded' = Decoded(off, StreamGetFrameSize(file, off), MemGetFrameSize(file, off))
  /\ UNCHANGED <<inputVars, httpVars, iterVars, sideVars, iters, parser, parserError, streamVars,
                 memVars>>

NextDecode == Decode

SpecDecode == InitDecode /\ [][NextDecode]_vars

(***************************************************************************)
(* The loop body's test of the four bytes at the offset: the sync test on  *)
(* the first two bytes and, where it passes, getFrameSize.  It is applied  *)
(* to a header and to a twin of it: a header with the same first byte, the *)
(* same top three bits of the second byte and the same upper seven bits of *)
(* the third byte, and with other version / layer / protection bits,       *)
(* private bit and fourth byte.                                            *)
(***************************************************************************)
ExamineByte0 == {127, 255}
ExamineByte1 == {31, 223, 224, 251}
TwinLow5 == {0, 19, 27, 31}
TwinBit0 == 0..1
TwinByte3 == {0, 196, 255}

ExamineHeaders ==
  {<<b0, b1, b2, 0>> : b0 \in ExamineByte0, b1 \in ExamineByte1, b2 \in HeaderByte2}

TwinsOf(h) ==
  {<<h[1], (h[2] \div 32) * 32 + v, (h[3] \div 2) * 2 + b, c>> :
      v \in TwinLow5, b \in TwinBit0, c \in TwinByte3}

InitExamine == InitInput(ExamineHeaders) /\ exists /\ InitRest

\* byte1 === 0xff && (byte2 & 0xe0) === 0xe0, then getFrameSize(buffer, offset)
HeaderTest(buf) ==
  IF SyncMatch(buf[1], buf[2])
  THEN [sync |-> TRUE, size |-> StreamGetFrameSize(buf, 0)]
  ELSE [sync |-> FALSE, size |-> 0]

Examine ==
  /\ examined.state = "none"
  /\ \E t \in TwinsOf(file) :
     \E a \in {HeaderTest(file)} :
     \E b \in {HeaderTest(t)} :
       examined' = Examined(t, a.sync, a.size, b.sync, b.size)
  /\ UNCHANGED <<inputVars, httpVars, iterVars, decoded, other, iters, parser,
                 parserError, streamVars, memVars>>

NextExamine == Examine

SpecExamine == InitExamine /\ [][NextExamine]_vars

(***************************************************************************)
(* POST /file-upload: the multer middleware upload.single('file'), the     *)
(* route handler and the error middleware.  An upload is the file part of  *)
(* the request: whether there is one, its mimetype and its size in bytes;  *)
(* `file` holds the bytes the request carries, which are on disk at `path` *)
(* while `exists` (an upload over the size limit never is, and its bytes   *)
(* are not represented).  Messages are sequences of strings, as the        *)
(* reasons of a rejected promise are.                                      *)
(***************************************************************************)
Mimetypes == {"audio/mpeg", "audio/mp3", "text/plain"}

NoUpload == [present |-> FALSE, mimetype |-> "", size |-> 0]
Upload(m, n) == [present |-> TRUE, mimetype |-> m, size |-> n]

\* uploads: short garbage, and one complete frame alone or after a junk byte
MaxRouteGarbage == 2

RouteFiles ==
  SeqsUpTo(GarbageBytes, MaxRouteGarbage)
    \cup {j \o MkFrame(h) : j \in {<<>>, <<255>>}, h \in HeaderChoices}

MulterError(code, msg) == [class |-> "MulterError", code |-> code, message |-> msg]
InvalidMp3Error(msg) == [class |-> "InvalidMp3Error", code |-> "", message |-> msg]
PlainError(msg) == [class |-> "Error", code |-> "", message |-> msg]

Success(n) == [status |-> 200, body |-> "frameCount", frameCount |-> n, error |-> <<>>]
Failure(st, msg) == [status |-> st, body |-> "error", frameCount |-> 0, error |-> msg]

\* variant of ErrorHandler: an error that is neither a MulterError nor an
\* Mp3ParserError is answered with 500
ErrorHandler_Plain500(err) ==
  IF err.class = "MulterError"
  THEN IF err.code = "LIMIT_FILE_SIZE" THEN <<Failure(400, <<MsgTooLarge>>)>>
       ELSE <<Failure(400, err.message)>>
  ELSE IF err.class = "InvalidMp3Error" THEN <<Failure(400, err.message)>>
  ELSE <<Failure(500, err.message)>>

\* errorHandler: the responses it sends for err (InvalidMp3Error is an
\* Mp3ParserError; every error object is truthy)
ErrorHandler(err) ==
  IF err.class = "MulterError"
  THEN IF err.code = "LIMIT_FILE_SIZE" THEN <<Failure(400, <<MsgTooLarge>>)>>
       ELSE <<Failure(400, err.message)>>
  ELSE IF err.class = "InvalidMp3Error" THEN <<Failure(400, err.message)>>
  ELSE <<Failure(400, err.message)>>

InitRoute ==
  /\ path = "uploads/tmp"
  /\ exists = FALSE
  /\ \/ upload = NoUpload /\ file = <<>>
     \/ \E m \in Mimetypes : upload = Upload(m, MAX_FILE_SIZE + 1) /\ file = <<>>
     \/ \E m \in Mimetypes : file \in RouteFiles /\ upload = Upload(m, Len(file))
  /\ InitRest

\* upload.single('file'): fileFilter, then the disk storage under the
\* fileSize limit; next() runs the handler, next(err) the error middleware
Multer ==
  /\ route = "none"
  /\ IF ~upload.present
     THEN route' = "handler" /\ UNCHANGED <<exists, responses>>
     ELSE IF upload.mimetype \notin ALLOWED_MIMETYPES
     THEN /\ responses' = responses \o ErrorHandler(PlainError(<<MsgOnlyMp3>>))
          /\ route' = "done"
          /\ UNCHANGED exists
     ELSE IF upload.size > MAX_FILE_SIZE
     THEN /\ responses' = responses \o
                            ErrorHandler(MulterError("LIMIT_FILE_SIZE", <<"File too large">>))
          /\ route' = "done"
          /\ UNCHANGED exists
     ELSE exists' = TRUE /\ route' = "handler" /\ UNCHANGED responses
  /\ UNCHANGED <<path, file, upload, unlinks, iterVars, decoded, sideVars, iters, parser,
                 parserError, streamVars, memVars>>

\* the finally block for a filePath that was set
Cleanup ==
  IF exists THEN exists' = FALSE /\ unlinks' = unlinks + 1
  ELSE UNCHANGED <<exists, unlinks>>

\* variant of Handler: the file is removed in the try block after the scan,
\* not in a finally block
Handler_NoFinally ==
  /\ route = "handler"
  /\ IF ~upload.present
     THEN /\ responses' = Append(responses, Failure(400, <<MsgNoFile>>))
          /\ route' = "done"
          /\ UNCHANGED <<exists, unlinks, parser, parserError, streamVars>>
     ELSE IF path = "" \/ ~exists \/ Len(file) = 0
     THEN /\ parser' = "threw"
          /\ parserError' = IF path = "" THEN MsgPathRequired
                            ELSE IF ~exists THEN MsgNotExist ELSE MsgEmpty
          /\ responses' = responses \o ErrorHandler(InvalidMp3Error(<<parserError'>>))
          /\ route' = "done"
          /\ UNCHANGED <<exists, unlinks, streamVars>>
     ELSE /\ parser' = "ready" /\ parserError' = ""
          /\ promise' = Pending
          /\ stream' = "flowing"
          /\ frameCount' = 0
          /\ buffer' = <<>>
          /\ offset' = 0
          /\ route' = "awaiting"
          /\ UNCHANGED <<exists, unlinks, responses, delivered, settleCalls, dropped,
                         accepted, carried>>
  /\ UNCHANGED <<path, file, upload, iterVars, decoded, sideVars, iters, memVars>>

\* the handler up to its await: the req.file test, new StreamingMp3Parser
\* and the call of getFrameCount; a throw goes through catch (next(error))
\* and finally
Handler ==
  /\ route = "handler"
  /\ IF ~upload.present
     THEN /\ responses' = Append(responses, Failure(400, <<MsgNoFile>>))
          /\ route' = "done"
          /\ UNCHANGED <<exists, unlinks, parser, parserError, streamVars>>
     ELSE IF path = "" \/ ~exists \/ Len(file) = 0
     THEN /\ parser' = "threw"
          /\ parserError' = IF path = "" THEN MsgPathRequired
                            ELSE IF ~exists THEN MsgNotExist ELSE MsgEmpty
          /\ responses' = responses \o ErrorHandler(InvalidMp3Error(<<parserError'>>))
          /\ route' = "done"
          /\ Cleanup
          /\ UNCHANGED streamVars
     ELSE /\ parser' = "ready" /\ parserError' = ""
          /\ promise' = Pending
          /\ stream' = "flowing"
          /\ frameCount' = 0
          /\ buffer' = <<>>
          /\ offset' = 0
          /\ route' = "awaiting"
          /\ UNCHANGED <<exists, unlinks, responses, delivered, settleCalls, dropped,
                         accepted, carried>>
  /\ UNCHANGED <<path, file, upload, iterVars, decoded, sideVars, iters, memVars>>

\* the handler after its await, once the promise is settled: the 200
\* response or catch (next(error)), then finally
Resume ==
  /\ route = "awaiting"
  /\ promise.state \in {"resolved", "rejected"}
  /\ responses' = IF promise.state = "resolved"
                  THEN Append(responses, Success(promise.count))
                  ELSE responses \o ErrorHandler(InvalidMp3Error(promise.reason))
  /\ route' = "done"
  /\ Cleanup
  /\ UNCHANGED <<path, file, upload, iterVars, decoded, sideVars, iters, parser, parserError,
                 streamVars, memVars>>

NextRoute ==
  \/ Multer
  \/ Handler
  \/ Data
  \/ End
  \/ Error
  \/ Resume

SpecRoute == InitRoute /\ [][NextRoute]_vars

\* the stream delivers its events and awaited continuations run
FairSpecRoute == SpecRoute /\ WF_vars(NextRoute)

(***************************************************************************)
(* Two getFrameCount calls on one StreamingMp3Parser.  Every call creates   *)
(* its own read stream on this.filePath and its own let frameCount, let    *)
(* buffer and let offset, which its three handlers close over; the events  *)
(* of the two streams arrive in any order.  The first call's closure is    *)
(* the variables stream .. accepted, the second call's is the record other.*)
(***************************************************************************)
MaxPairGarbage == 2
PairChunk == 40

PairFiles ==
  SeqsUpTo(GarbageBytes, MaxPairGarbage) \cup
  { junk \o MkFrame(h) \o tail :
      junk \in {<<>>, <<255>>},
      h \in HeaderChoices,
      tail \in {<<>>, MkTruncated(<<251, 1, 1, 0>>, 6)} }

PairChunkLens(rem) == {k \in 1..rem : k = PairChunk \/ k = rem}

InitPair == InitInput(PairFiles) /\ InitRest

\* the first call's closure, read as a record of the shape of other
First ==
  [stream |-> stream, delivered |-> delivered, buffer |-> buffer, offset |-> offset,
   frameCount |-> frameCount, promise |-> promise, dropped |-> dropped,
   accepted |-> accepted]

DataPair == \E k \in PairChunkLens(Len(file) - delivered) : Deliver(k)

\* the second call, made once the first call has returned its promise
GetFrameCountAgain ==
  /\ parser = "ready"
  /\ promise.state # "none"
  /\ other.stream = "none"
  /\ other' = [other EXCEPT !.promise = Pending, !.stream = "flowing", !.frameCount = 0,
                            !.buffer = <<>>, !.offset = 0]
  /\ UNCHANGED <<inputVars, httpVars, iterVars, decoded, examined, iters, parser,
                 parserError, streamVars, memVars>>

\* variant of OtherDeliver: frameCount is a field of the parser, which the
\* handlers of both calls read and write
OtherDeliver_SharedCount(k) ==
  /\ other.stream = "flowing"
  /\ k >= 1
  /\ other.delivered + k <= Len(file)
  /\ \E buf \in {other.buffer \o SubSeq(file, other.delivered + 1, other.delivered + k)} :
     \E r \in {StreamScanLoop(buf, other.offset, frameCount, <<>>)} :
       /\ frameCount' = r.frameCount
       /\ other' =
            [other EXCEPT
               !.frameCount = r.frameCount,
               !.buffer = IF r.offset > 0 THEN SubSeq(buf, r.offset + 1, Len(buf)) ELSE buf,
               !.offset = IF r.offset > 0 THEN 0 ELSE r.offset,
               !.dropped = IF r.offset > 0 THEN other.dropped + r.offset
                           ELSE other.dropped,
               !.accepted = other.accepted \o
                  [i \in 1..Len(r.accepted) |-> other.dropped + r.accepted[i]],
               !.delivered = other.delivered + k]
  /\ UNCHANGED <<inputVars, httpVars, iterVars, decoded, examined, iters, parser,
                 parserError, stream, delivered, buffer, offset, promise, settleCalls,
                 dropped, accepted, carried, memVars>>

\* a 'data' event of the second call's stream: its handler on its own
\* frameCount, buffer and offset
OtherDeliver(k) ==
  /\ other.stream = "flowing"
  /\ k >= 1
  /\ other.delivered + k <= Len(file)
  /\ \E buf \in {other.buffer \o SubSeq(file, other.delivered + 1, other.delivered + k)} :
     \E r \in {StreamScanLoop(buf, other.offset, other.frameCount, <<>>)} :
       other' =
         [other EXCEPT
            !.frameCount = r.frameCount,
            !.buffer = IF r.offset > 0 THEN SubSeq(buf, r.offset + 1, Len(buf)) ELSE buf,
            !.offset = IF r.offset > 0 THEN 0 ELSE r.offset,
            !.dropped = IF r.offset > 0 THEN other.dropped + r.offset ELSE other.dropped,
            !.accepted = other.accepted \o
               [i \in 1..Len(r.accepted) |-> other.dropped + r.accepted[i]],
            !.delivered = other.delivered + k]
  /\ UNCHANGED <<inputVars, httpVars, iterVars, decoded, examined, iters, parser,
                 parserError, streamVars, memVars>>

OtherData == \E k \in PairChunkLens(Len(file) - other.delivered) : OtherDeliver(k)

OtherEnd ==
  /\ other.stream = "flowing"
  /\ other.delivered = Len(file)
  /\ other' = [other EXCEPT
                 !.stream = "ended",
                 !.promise = IF other.promise.state # "pending" THEN other.promise
                             ELSE IF other.frameCount = 0 THEN Rejected(<<MsgNoFrames>>)
                             ELSE Resolved(other.frameCount)]
  /\ UNCHANGED <<inputVars, httpVars, iterVars, decoded, examined, iters, parser,
                 parserError, streamVars, memVars>>

OtherError ==
  /\ other.stream = "flowing"
  /\ \E cause \in Causes :
       other' = [other EXCEPT
                   !.stream = "errored",
                   !.promise = IF other.promise.state # "pending" THEN other.promise
                               ELSE Rejected(<<MsgReadErrorPrefix, cause>>)]
  /\ UNCHANGED <<inputVars, httpVars, iterVars, decoded, examined, iters, parser,
                 parserError, streamVars, memVars>>

NextPair ==
  \/ Construct
  \/ GetFrameCount
  \/ GetFrameCountAgain
  \/ DataPair
  \/ End
  \/ Error
  \/ OtherData
  \/ OtherEnd
  \/ OtherError

SpecPair == InitPair /\ [][NextPair]_vars

(***************************************************************************)
(* Outcomes and properties.                                                *)
(***************************************************************************)
NoFramesFound == <<MsgNoFrames>>
IsReadFailure(r) == Len(r) = 2 /\ r[1] = MsgReadErrorPrefix /\ r[2] \in Causes

StreamDone == stream = "ended"
MemDone == memResult.state \in {"returned", "threw"}

\* the streaming scan of the whole file delivered as one single chunk
OneChunk(f) == StreamScanLoop(f, 0, 0, <<>>)
OutcomeOf(n) == IF n = 0 THEN Rejected(NoFramesFound) ELSE Resolved(n)

\* C1: for every non-empty buffer and every chunking of it, the streaming
\* scan that reached end-of-data and Mp3Parser.getFrameCount have the same
\* outcome: the same frame count, or both fail with 'No valid MP3 frames
\* found'.
C1_Equivalence ==
  (StreamDone /\ MemDone) =>
     \/ /\ promise.state = "resolved"
        /\ memResult.state = "returned"
        /\ promise.count = memResult.count
     \/ /\ promise.state = "rejected"
        /\ memResult.state = "threw"
        /\ promise.reason = NoFramesFound
        /\ memResult.reason = NoFramesFound

\* C2: whatever the chunking, the streaming scan that reached end-of-data
\* has the outcome of the scan of the same bytes delivered as one chunk and
\* has accepted frames at the same absolute offsets, in the same order.
C2_ChunkIndependence ==
  StreamDone =>
     \A r \in {OneChunk(file)} :
        /\ accepted = r.accepted
        /\ promise = OutcomeOf(r.frameCount)

C2_Witness ==
  /\ StreamDone
  /\ carried
  /\ Len(accepted) >= 1
  /\ accepted[1] > 0
  /\ Len(buffer) > 0

\* C3: one complete valid frame of any supported bitrate, sample rate and
\* padding, delivered as two chunks split at any point 1 <= k < L and then
\* end-of-data, resolves with frame count 1 (the frame accepted at offset 0).
C3_BoundarySplit ==
  StreamDone => (promise = Resolved(1) /\ accepted = <<0>>)

C3_Witness ==
  /\ StreamDone
  /\ carried
  /\ Len(file) = 1441
  /\ promise = Resolved(1)

NoSyncInside(j) == \A i \in 1..(Len(j) - 1) : ~SyncMatch(j[i], j[i + 1])

ResyncFiles ==
  {j \o MkFrame(h) : j \in {x \in SeqsUpTo(JunkBytes, MaxJunk) : NoSyncInside(x)},
                     h \in HeaderChoices}

\* C4: N >= 0 junk bytes with no sync match inside them, followed by exactly
\* one complete valid frame, give frame count 1 in the streaming scanner and
\* in Mp3Parser, also when the last junk byte is 0xFF.
C4_Resync ==
  ((StreamDone \/ MemDone) /\ file \in ResyncFiles) =>
     /\ StreamDone => promise = Resolved(1)
     /\ MemDone => memResult = Returned(1)

\* the header fields as createValidMp3Frame laid them out in the file's
\* first frame
HeaderOf(f) == <<f[2], f[3] \div 16, (f[3] \div 4) % 4, (f[3] \div 2) % 2>>

\* offsets 0, L, 2L, ... of n frames of length L laid back to back
Starts(n, L) == [i \in 1..n |-> (i - 1) * L]

\* C5: M complete valid frames back to back give frame count M in both
\* parsers: the count times the declared length is the input length and the
\* frames are accepted at offsets 0, L, 2L, ...; header FF FB 90 00 declares
\* 417 bytes.
C5_BackToBack ==
  /\ DeclaredLen(<<251, 9, 0, 0>>) = 417
  /\ StreamDone =>
       /\ promise.state = "resolved"
       /\ promise.count * DeclaredLen(HeaderOf(file)) = Len(file)
       /\ accepted = Starts(promise.count, DeclaredLen(HeaderOf(file)))
  /\ MemDone =>
       /\ memResult.state = "returned"
       /\ memResult.count * DeclaredLen(HeaderOf(file)) = Len(file)
       /\ memAccepted = Starts(memResult.count, DeclaredLen(HeaderOf(file)))

C5_Witness ==
  /\ StreamDone
  /\ MemDone
  /\ Len(file) = 4170
  /\ SubSeq(file, 1, 4) = <<255, 251, 144, 0>>
  /\ carried
  /\ promise = Resolved(10)
  /\ memResult = Returned(10)

ValidHeaderAt(f, p) ==
  /\ f[p + 1] = 255
  /\ f[p + 2] >= 224
  /\ (f[p + 3] \div 16) \notin {0, 15}
  /\ ((f[p + 3] \div 4) % 4) # 3

GarbageOnly(f) ==
  /\ Len(f) >= 1
  /\ \A p \in 0..(Len(f) - 4) : ~ValidHeaderAt(f, p)

\* C6: a non-empty input in which no position both matches the sync pattern
\* and decodes to a valid frame length never gives a success count; at
\* end-of-data the streaming scan fails with 'No valid MP3 frames found',
\* and so does Mp3Parser.getFrameCount.
C6_GarbageOnly ==
  ((promise.state # "none" \/ MemDone) /\ GarbageOnly(file)) =>
     /\ promise.state # "resolved"
     /\ StreamDone => promise = Rejected(NoFramesFound)
     /\ memResult.state # "returned"
     /\ MemDone => memResult = Threw(NoFramesFound)

C6_Witness ==
  /\ StreamDone
  /\ MemDone
  /\ Len(file) >= 5
  /\ GarbageOnly(file)
  /\ \E p \in 0..(Len(file) - 5) : SyncMatch(file[p + 1], file[p + 2])
  /\ promise = Rejected(NoFramesFound)
  /\ memResult = Threw(NoFramesFound)

\* C7: a stored source of zero bytes is refused by both constructors with
\* 'File is empty'; no parser is ever ready, no stream is opened, no scan
\* step runs and no scan outcome (such as NoFramesFound) is produced.
C7_EmptyInput ==
  (exists /\ Len(file) = 0) =>
     /\ parser # "ready"
     /\ parser = "threw" => parserError = MsgEmpty
     /\ memParser # "ready"
     /\ memParser = "threw" => memError = MsgEmpty
     /\ stream = "none"
     /\ delivered = 0
     /\ promise = NoOutcome
     /\ memResult = NoOutcome

C7_Witness ==
  /\ exists
  /\ Len(file) = 0
  /\ parser = "threw"
  /\ parserError = MsgEmpty
  /\ memParser = "threw"
  /\ memError = MsgEmpty

\* C8: once the byte source has signalled an error, after any number of
\* chunks and whatever frameCount is, the outcome is the read-failure
\* rejection carrying the cause: not NoFramesFound and not a success count.
C8_ReadFailure ==
  stream = "errored" =>
     /\ promise.state = "rejected"
     /\ IsReadFailure(promise.reason)
     /\ promise.reason # NoFramesFound

C8_Witness ==
  /\ stream = "errored"
  /\ delivered > 0
  /\ frameCount >= 1
  /\ promise.state = "rejected"
  /\ IsReadFailure(promise.reason)

\* C9: a 'data' event never settles the promise; the promise leaves
\* "pending" in one step only, the 'end' event (resolved with frameCount if
\* it is >= 1, else NoFramesFound) or the 'error' event, resolve/reject is
\* called at most once, and while the stream flows the promise is pending.
C9_SettledOnlyAtEnd ==
  [][ /\ delivered' # delivered =>
           (promise' = promise /\ settleCalls' = settleCalls /\ promise = Pending)
      /\ settleCalls' <= 1
      /\ stream' = "flowing" => promise' = Pending
      /\ stream' \in {"ended", "errored"} => promise'.state \in {"resolved", "rejected"}
      /\ promise' # promise =>
           \/ promise = NoOutcome /\ promise' = Pending
           \/ /\ promise = Pending /\ stream = "flowing" /\ stream' = "ended"
              /\ delivered = Len(file)
              /\ promise' = OutcomeOf(frameCount)
              /\ settleCalls' = 1
           \/ /\ promise = Pending /\ stream = "flowing" /\ stream' = "errored"
              /\ promise'.state = "rejected"
              /\ IsReadFailure(promise'.reason)
              /\ settleCalls' = 1
    ]_vars

C9_Witness ==
  /\ stream = "flowing"
  /\ Len(file) >= 5
  /\ delivered = Len(file)
  /\ SyncMatch(file[1], file[2])
  /\ dropped >= 1
  /\ frameCount = 0
  /\ promise = Pending

InFlight ==
  /\ Len(buffer) >= MIN_HEADER_SIZE
  /\ SyncMatch(buffer[1], buffer[2])
  /\ StreamGetFrameSize(buffer, 0) > Len(buffer)

Frames(hs) == Concat([i \in 1..Len(hs) |-> MkFrame(hs[i])])

\* C10: at end-of-data a valid header left at the front of the buffer whose
\* declared length was never satisfied is not counted and does not fail the
\* scan by itself (the outcome is decided by the frames counted before it);
\* K >= 1 complete frames followed by a truncated valid frame resolve with K.
C10_TrailingDiscarded ==
  StreamDone =>
     /\ InFlight =>
          /\ promise = OutcomeOf(Len(accepted))
          /\ \A i \in 1..Len(accepted) : accepted[i] < dropped
     /\ \A hs \in SeqsUpTo(HeaderChoices, MaxFrames) \ {<<>>} :
          \A h \in HeaderChoices :
             file = Frames(hs) \o MkTruncated(h, TruncLen) =>
                promise = Resolved(Len(hs))

C10_Witness ==
  /\ StreamDone
  /\ InFlight
  /\ carried
  /\ Len(file) = 96 + TruncLen
  /\ dropped = 96
  /\ promise = Resolved(1)

\* the tables of the frame-length formula, by index
KbpsOf(i) == <<0, 32, 40, 48, 56, 64, 80, 96, 112, 128, 160, 192, 224, 256, 320, 0>>[i + 1]
HzOf(i) == <<44100, 48000, 32000, 0>>[i + 1]

\* C11: for every header, both getFrameSize methods return the same value;
\* it is 0 exactly when the bitrate index (bits 12..15) is 0 or 15 or the
\* sample-rate index (bits 10..11) is 3, and otherwise it is
\* floor(144 * kbps * 1000 / Hz) + padding (bit 9).
C11_Decoder ==
  decoded.state = "done" =>
     LET b2 == file[decoded.offset + 3]
         bitrateIndex == b2 \div 16
         sampleRateIndex == (b2 \div 4) % 4
         padding == (b2 \div 2) % 2
         rejects == bitrateIndex \in {0, 15} \/ sampleRateIndex = 3
     IN  /\ decoded.stream = decoded.mem
         /\ (decoded.stream = 0) <=> rejects
         /\ ~rejects =>
              decoded.stream =
                ((144 * KbpsOf(bitrateIndex) * 1000) \div HzOf(sampleRateIndex)) + padding

\* FF FB E2 xx at offset 1: 320 kbps at 44100 Hz with padding, 1045 bytes
C11_Witness ==
  /\ decoded.state = "done"
  /\ decoded.offset = 1
  /\ SubSeq(file, 2, 4) = <<255, 251, 226>>
  /\ decoded.stream = 1045
  /\ decoded.mem = 1045

RouteDone == route = "done"

\* the upload passed the mimetype filter and the size limit and was stored
Stored ==
  /\ upload.present
  /\ upload.mimetype \in ALLOWED_MIMETYPES
  /\ upload.size <= MAX_FILE_SIZE

C12_Mapping ==
  /\ Len(responses) <= 1
  /\ RouteDone => Len(responses) = 1
  /\ \A i \in 1..Len(responses) :
       /\ responses[i].status \in {200, 400}
       /\ responses[i].status = 200 =>
            /\ promise.state = "resolved"
            /\ responses[i] = Success(promise.count)
            /\ responses[i].frameCount >= 1
       /\ responses[i].status = 400 =>
            /\ promise.state # "resolved"
            /\ responses[i].body = "error"
            /\ responses[i].error # <<>>
  /\ RouteDone =>
       /\ ~upload.present => responses[1] = Failure(400, <<MsgNoFile>>)
       /\ (upload.present /\ upload.mimetype \notin ALLOWED_MIMETYPES) =>
            responses[1] = Failure(400, <<MsgOnlyMp3>>)
       /\ (upload.present /\ upload.mimetype \in ALLOWED_MIMETYPES
             /\ upload.size > MAX_FILE_SIZE) =>
            responses[1] = Failure(400, <<MsgTooLarge>>)
       /\ (Stored /\ upload.size = 0) => responses[1] = Failure(400, <<MsgEmpty>>)
       /\ promise.state = "rejected" => responses[1] = Failure(400, promise.reason)
       /\ stream = "ended" /\ frameCount = 0 =>
            responses[1] = Failure(400, NoFramesFound)
       /\ stream = "errored" =>
            responses[1].status = 400 /\ IsReadFailure(responses[1].error)

\* C12: every request to POST /file-upload gets exactly one response; it is
\* 200 with a frameCount >= 1 only when the scan resolved, and no file, a
\* disallowed mimetype, a file over 10MB, an empty file, no valid frames and
\* a read error all end in status 400 with an 'error' reason.
C12_OutcomeMapping == []C12_Mapping /\ <>RouteDone

\* a read error after a frame was counted, answered with 400
C12_Witness ==
  /\ RouteDone
  /\ stream = "errored"
  /\ frameCount >= 1
  /\ Len(responses) = 1
  /\ responses[1].status = 400
  /\ IsReadFailure(responses[1].error)

\* C13: when the handler of a request whose upload was stored has finished
\* (scan success, constructor failure, scan rejection or read failure) the
\* temporary file no longer exists; it is unlinked at most once, and never
\* while the scan is unsettled.
C13_TempFileRelease ==
  /\ unlinks <= 1
  /\ (RouteDone /\ Stored) => (~exists /\ unlinks = 1)
  /\ ~Stored => (~exists /\ unlinks = 0)
  /\ unlinks = 1 => (parser = "threw" \/ promise.state \in {"resolved", "rejected"})
  /\ (Stored /\ route \in {"handler", "awaiting"}) => (exists /\ unlinks = 0)
  /\ stream = "flowing" => exists

\* the constructor refused an empty stored upload and the file is gone
C13_Witness ==
  /\ RouteDone
  /\ Stored
  /\ parser = "threw"
  /\ parserError = MsgEmpty
  /\ ~exists
  /\ unlinks = 1

\* the absolute scan cursor of the streaming scan
Cursor == dropped + offset

\* a step of the 'data' handler's loop / of Mp3Parser's loop was taken
StreamStepped ==
  <<buffer, offset, frameCount, scanning>>' # <<buffer, offset, frameCount, scanning>>
MemStepped == <<memOffset, memCount, memResult>>' # <<memOffset, memCount, memResult>>

\* C14: the absolute cursor never decreases; a loop iteration moves it by
\* the decoded length L when it accepts a frame, by 1 when the sync test
\* fails or the decoder rejects, and by 0 only when the streaming loop
\* suspends; a frame is accepted only at the cursor, so the cursor never
\* passes the start of a frame accepted later.  The same for Mp3Parser's
\* loop, which has no suspension.
C14_CursorSteps ==
  [][ /\ Cursor' >= Cursor
      /\ memOffset' >= memOffset
      /\ (scanning /\ LoopCond /\ StreamStepped) =>
           \E L \in {StreamGetFrameSize(buffer, offset)} :
              IF SyncHere /\ L > 0 /\ offset + L <= Len(buffer)
              THEN /\ Cursor' = Cursor + L
                   /\ accepted' = Append(accepted, Cursor)
              ELSE IF SyncHere /\ L > 0
              THEN /\ Cursor' = Cursor
                   /\ ~scanning'
                   /\ accepted' = accepted
              ELSE /\ Cursor' = Cursor + 1
                   /\ accepted' = accepted
      /\ ~(scanning /\ LoopCond) => (Cursor' = Cursor /\ accepted' = accepted)
      /\ (memParser = "ready" /\ MemLoopCond /\ MemStepped) =>
           \E L \in {MemGetFrameSize(file, memOffset)} :
              IF SyncMatch(file[memOffset + 1], file[memOffset + 2]) /\ L > 0
              THEN /\ memOffset' = memOffset + L
                   /\ memAccepted' = Append(memAccepted, memOffset)
              ELSE /\ memOffset' = memOffset + 1
                   /\ memAccepted' = memAccepted
      /\ ~(memParser = "ready" /\ MemLoopCond) =>
           (memOffset' = memOffset /\ memAccepted' = memAccepted)
    ]_vars

\* junk FF, a 96-byte frame and a truncated header: rejected at 0, accepted
\* at 1, suspended at 97; Mp3Parser has stepped from 97 to 193
C14_Witness ==
  /\ StreamDone
  /\ MemDone
  /\ accepted = <<1>>
  /\ InFlight
  /\ Cursor = 97
  /\ memAccepted = <<1, 97>>
  /\ memOffset = 193

\* the decoder's rejection, read off the third header byte
DecoderRejects(b2) == (b2 \div 16) \in {0, 15} \/ ((b2 \div 4) % 4) = 3

RejectedSyncAt(f, p) ==
  /\ p + 4 <= Len(f)
  /\ SyncMatch(f[p + 1], f[p + 2])
  /\ DecoderRejects(f[p + 3])

CompleteFrameAt(f, p) ==
  /\ p + 4 <= Len(f)
  /\ ValidHeaderAt(f, p)
  /\ p + DeclaredLen(HeaderOf(SubSeq(f, p + 1, p + 4))) <= Len(f)

\* the cursor cur has been at p: it is beyond p and no frame accepted in acc
\* covers p
Visited(f, p, cur, acc) ==
  /\ p < cur
  /\ \A i \in 1..Len(acc) :
       ~(acc[i] < p /\ p < acc[i] + MemGetFrameSize(f, acc[i]))

\* the step a rejected sync match takes, in both loops
RejectSteps ==
  /\ (scanning /\ LoopCond /\ SyncHere /\ DecoderRejects(buffer[offset + 3])
        /\ StreamStepped) =>
         /\ offset' = offset + 1
         /\ scanning'
         /\ frameCount' = frameCount
         /\ accepted' = accepted
  /\ (memParser = "ready" /\ MemLoopCond /\ MemStepped
        /\ RejectedSyncAt(file, memOffset)) =>
         /\ memOffset' = memOffset + 1
         /\ memCount' = memCount
         /\ memAccepted' = memAccepted

\* a complete frame one byte after a visited, rejected sync match is in acc
OverlappingCounted(cur, acc) ==
  \A p \in 0..(Len(file) - 5) :
     (RejectedSyncAt(file, p) /\ Visited(file, p, cur, acc) /\ CompleteFrameAt(file, p + 1))
        => \E i \in 1..Len(acc) : acc[i] = p + 1

\* C15: an iteration at a position p whose bytes match the sync pattern and
\* are rejected by the decoder moves the offset by exactly 1 and counts
\* nothing, in both loops; so when the scan is done, a complete valid frame
\* starting at p + 1, inside the rejected header, has been accepted.
C15_SingleByteAdvance ==
  /\ [][RejectSteps]_vars
  /\ [](StreamDone => OverlappingCounted(Cursor, accepted))
  /\ [](MemDone => OverlappingCounted(memOffset, memAccepted))

\* FF FF FB 14 ...: the sync match at 0 has bitrate index 15, the frame at 1
\* is counted by both scanners
C15_Witness ==
  /\ StreamDone
  /\ MemDone
  /\ Len(file) = 97
  /\ SubSeq(file, 1, 5) = <<255, 255, 251, 20, 0>>
  /\ RejectedSyncAt(file, 0)
  /\ CompleteFrameAt(file, 1)
  /\ carried
  /\ accepted = <<1>>
  /\ memAccepted = <<1>>
  /\ promise = Resolved(1)

\* counting, suspending and resuming steps of the streaming scan
CountSteps ==
  /\ frameCount' # frameCount =>
       /\ scanning
       /\ frameCount' = frameCount + 1
       /\ StreamGetFrameSize(buffer, offset) > 0
       /\ offset + StreamGetFrameSize(buffer, offset) <= Len(buffer)
       /\ accepted' = Append(accepted, Cursor)
  /\ (scanning /\ LoopCond /\ SyncHere /\ StreamGetFrameSize(buffer, offset) > 0
        /\ offset + StreamGetFrameSize(buffer, offset) > Len(buffer) /\ StreamStepped) =>
         /\ ~scanning'
         /\ frameCount' = frameCount
         /\ Cursor' = Cursor
         /\ offset' = 0
         /\ buffer' = SubSeq(buffer, offset + 1, Len(buffer))
  /\ (~scanning /\ InFlight /\ scanning') =>
         /\ offset' = 0
         /\ Cursor' = Cursor
         /\ frameCount' = frameCount
         /\ SubSeq(buffer', 1, Len(buffer)) = buffer
         /\ LoopCond'
         /\ SyncHere'

\* every counted frame lies within the bytes received so far
CountedReceived ==
  /\ frameCount = Len(accepted)
  /\ \A i \in 1..Len(accepted) :
       /\ StreamGetFrameSize(file, accepted[i]) > 0
       /\ accepted[i] + StreamGetFrameSize(file, accepted[i]) <= delivered

\* C16: the streaming scanner increments frameCount only when
\* offset + L <= buffer.length, so every counted frame lies within the bytes
\* received so far; when offset + L > buffer.length the loop stops at once
\* with the cursor and frameCount unchanged and the header at the front of
\* the buffer, where the loop of the next chunk examines it again.
C16_NoSpeculativeCount ==
  /\ [][CountSteps]_vars
  /\ []CountedReceived

\* one frame counted, the next header suspended with 5 of its bytes received
C16_Witness ==
  /\ stream = "flowing"
  /\ ~scanning
  /\ InFlight
  /\ carried
  /\ frameCount = 1
  /\ dropped = 96
  /\ delivered = 101
  /\ Len(buffer) = 5

\* C17: every frame Mp3Parser.getFrameCount counts starts at a header that
\* passes validation and lies entirely within the buffer
\* (offset + frameSize <= buffer.length); a valid header whose declared
\* length runs past the end of the buffer is not counted.
C17_MemFramesFit ==
  MemDone =>
     /\ memResult.count = Len(memAccepted)
     /\ \A i \in 1..Len(memAccepted) :
          /\ ValidHeaderAt(file, memAccepted[i])
          /\ memAccepted[i] + MemGetFrameSize(file, memAccepted[i]) <= Len(file)

\* C18: after every 'data' handler offset is 0 and the buffer is exactly the
\* delivered bytes that were not dropped: the dropped prefix followed by the
\* buffer is the sequence of bytes delivered so far.
C18_PendingConservation ==
  /\ offset = 0
  /\ dropped <= delivered
  /\ Len(buffer) = delivered - dropped
  /\ SubSeq(file, 1, dropped) \o buffer = SubSeq(file, 1, delivered)

\* bytes were dropped and others carried over to a later chunk
C18_Witness ==
  /\ stream = "flowing"
  /\ carried
  /\ dropped >= 2
  /\ Len(buffer) >= 2
  /\ delivered < Len(file)
  /\ frameCount >= 1

ScanFloorSteps ==
  /\ (scanning /\ offset + MIN_HEADER_SIZE <= Len(buffer) /\ StreamStepped) =>
         (scanning' \/ Breaks)
  /\ (scanning /\ ~scanning' /\ ~Breaks) => Len(buffer) - offset < MIN_HEADER_SIZE
  /\ (memParser = "ready" /\ memResult.state = "none" /\ MemStepped
        /\ memOffset + MIN_HEADER_SIZE <= Len(file)) =>
         memOffset' # memOffset
  /\ memResult' # memResult => Len(file) - memOffset < MIN_HEADER_SIZE

\* C20: both loops examine the candidate at the cursor whenever
\* cursor + 4 <= length, so a loop that halts without suspending leaves
\* fewer than 4 unexamined bytes.
C20_ScanFloor == [][ScanFloorSteps]_vars

\* C21: scans share no mutable state.  With the events of two getFrameCount
\* calls on one parser interleaved in any order, no step changes the closure
\* of both calls, and each call's buffer, offset, frameCount, dropped bytes
\* and accepted offsets are those of a scan that received the same bytes
\* alone, and its promise is settled as that scan's would be.
AloneAfter(f, d) ==
  LET r == OneChunk(SubSeq(f, 1, d))
  IN  [buffer |-> SubSeq(f, r.offset + 1, d), offset |-> 0, frameCount |-> r.frameCount,
       dropped |-> r.offset, accepted |-> r.accepted]

AsAlone(s) ==
  /\ s.stream = "none" => s = NoScan
  /\ s.stream # "none" =>
       [buffer |-> s.buffer, offset |-> s.offset, frameCount |-> s.frameCount,
        dropped |-> s.dropped, accepted |-> s.accepted] = AloneAfter(file, s.delivered)
  /\ s.stream = "flowing" => s.promise = Pending
  /\ s.stream = "ended" =>
       /\ s.delivered = Len(file)
       /\ s.promise = OutcomeOf(OneChunk(file).frameCount)
  /\ s.stream = "errored" =>
       s.promise.state = "rejected" /\ IsReadFailure(s.promise.reason)

StepsApart == streamVars' = streamVars \/ other' = other

C21_ScanIsolation == [][StepsApart]_vars /\ [](AsAlone(First) /\ AsAlone(other))

\* the second call's scan has ended with one frame counted while the first
\* call's scan, one chunk into the same file, is still waiting for data
C21_Witness ==
  /\ stream = "flowing"
  /\ delivered = PairChunk
  /\ frameCount = 0
  /\ dropped = 1
  /\ other.stream = "ended"
  /\ other.promise = Resolved(1)
  /\ other.accepted = <<1>>

\* C22: the header bits the scanner does not validate do not matter.  Two
\* headers with the same byte 0, the same top 3 bits of byte 1 and the same
\* bitrate-index, sample-rate-index and padding bits of byte 2 (they differ at
\* most in the low 5 bits of byte 1, the lowest bit of byte 2 and byte 3) get
\* the same sync decision, the same accept/reject decision and the same
\* frame length.
SameValidatedBits(a, b) ==
  /\ a[1] = b[1]
  /\ a[2] \div 32 = b[2] \div 32
  /\ a[3] \div 2 = b[3] \div 2

Accepts(sync, size) == sync /\ size > 0

C22_UnvalidatedBits ==
  (examined.state = "done" /\ SameValidatedBits(file, examined.twin)) =>
     /\ examined.sync = examined.twinSync
     /\ Accepts(examined.sync, examined.size) =
          Accepts(examined.twinSync, examined.twinSize)
     /\ examined.size = examined.twinSize

\* FF FB 14 00 and FF F3 15 C4 (other version / layer / protection bits,
\* private bit set, other fourth byte) are both accepted with length 96
C22_Witness ==
  /\ examined.state = "done"
  /\ file = <<255, 251, 20, 0>>
  /\ examined.twin = <<255, 243, 21, 196>>
  /\ examined.sync /\ examined.twinSync
  /\ examined.size = 96 /\ examined.twinSize = 96

\* C23: progress and completion.  An iteration that stays in the loop moves
\* the offset forward by at least one byte, and by at least one byte where it
\* counts a frame (every accepted length is >= 1); the other way out of an
\* iteration is the suspension, which leaves the loop.  A 'data' handler has
\* run at most as many iterations as its offset has advanced, which is at
\* most the length of the buffer.  The promise stays pending while the stream
\* has signalled neither 'end' nor 'error', and a scan whose stream delivers
\* its chunks and then 'end', or an 'error', is eventually settled.
Settled == promise.state \in {"resolved", "rejected"}

ProgressSteps ==
  /\ (scanning /\ scanning' /\ iters' # iters) =>
        /\ iters' = iters + 1
        /\ offset' >= offset + 1
        /\ frameCount' # frameCount => offset' - offset >= 1
  /\ (scanning /\ ~scanning') => iters' = 0
  /\ memOffset' >= memOffset
  /\ memCount' # memCount => memOffset' >= memOffset + 1

IterationsBounded == scanning => (iters <= offset /\ offset <= Len(buffer))

SettlesOnlyAtEndOrError == stream = "flowing" => promise = Pending

C23_ProgressAndCompletion ==
  /\ [][ProgressSteps]_vars
  /\ []IterationsBounded
  /\ []SettlesOnlyAtEndOrError
  /\ (promise = Pending) ~> Settled

\* an 'error' after two chunks settles the scan that had skipped one byte and
\* suspended at a frame
C23_Witness ==
  /\ stream = "errored"
  /\ Settled
  /\ dropped = 1
  /\ delivered = 6
  /\ Len(file) > 96
  /\ ~scanning

\* C24: for a non-empty buffer, scanned by Mp3Parser and, in any chunking, by
\* StreamingMp3Parser, the count of Mp3Parser minus the count of
\* StreamingMp3Parser is 0 or 1; it is 1 exactly when the scan has reached a
\* sync-matching header with a valid decoded length that extends past the end
\* of the buffer, which Mp3Parser counts and the streaming scan leaves
\* pending; the frames accepted up to that point are the same, at the same
\* offsets.
OverrunAt(f, p) ==
  /\ p < Len(f) - MIN_HEADER_SIZE
  /\ ValidHeaderAt(f, p)
  /\ p + DeclaredLen(HeaderOf(SubSeq(f, p + 1, p + MIN_HEADER_SIZE))) > Len(f)

C24_CountRelation ==
  (StreamDone /\ MemDone) =>
     /\ memCount - frameCount \in {0, 1}
     /\ (memCount - frameCount = 1) <=> OverrunAt(file, Cursor)
     /\ Len(accepted) <= Len(memAccepted)
     /\ SubSeq(memAccepted, 1, Len(accepted)) = accepted
     /\ memAccepted = IF OverrunAt(file, Cursor) THEN Append(accepted, Cursor)
                      ELSE accepted
     /\ frameCount = Len(accepted) /\ memCount = Len(memAccepted)

\* a 96-byte frame followed by the first 6 bytes of another: the streaming
\* scan counts 1 and stops at offset 96, Mp3Parser counts 2
C24_Witness ==
  /\ StreamDone /\ MemDone
  /\ Len(file) = 102
  /\ frameCount = 1 /\ memCount = 2
  /\ Cursor = 96
  /\ OverrunAt(file, Cursor)
  /\ memAccepted = <<0, 96>>

====
